---- MODULE Spec2Model ----
(***************************************************************************)
(* A model of src/main.py: a Telegram bot that registers a user (name,     *)
(* phone, region) and grades IELTS writing tasks through an evaluation     *)
(* service, with one submission per task type per UTC day.                 *)
(*                                                                         *)
(* Texts are sequences of one-character strings, so that strip(), len(),   *)
(* the command and regex filters and the comparison of formatted dates are *)
(* computed as the code computes them.  The application processes one      *)
(* update at a time (python-telegram-bot's default: no concurrent updates, *)
(* blocking handlers), so a handler is one step, except confirm_answer,    *)
(* which stays in flight across the calls of the evaluation service.       *)
(***************************************************************************)
EXTENDS Integers, Sequences, FiniteSets, TLC

(***************************************************************************)
(* Bounds of the model.                                                    *)
(***************************************************************************)
\* The clock runs over the UTC days 0 .. MaxDay.
MaxDay == 2

(***************************************************************************)
(* Texts.                                                                  *)
(***************************************************************************)
Whitespace == {" ", "\n", "\t"}

RECURSIVE LStrip(_)
LStrip(s) ==
    IF s # <<>> /\ Head(s) \in Whitespace THEN LStrip(Tail(s)) ELSE s

RECURSIVE RStrip(_)
RStrip(s) ==
    IF s # <<>> /\ s[Len(s)] \in Whitespace
    THEN RStrip(SubSeq(s, 1, Len(s) - 1))
    ELSE s

\* str.strip()
Strip(s) == RStrip(LStrip(s))

\* Code points, as far as the comparison of formatted dates needs them.
CharCode(c) ==
    CASE c = "-" -> 45
      [] c = "0" -> 48 [] c = "1" -> 49 [] c = "2" -> 50 [] c = "3" -> 51
      [] c = "4" -> 52 [] c = "5" -> 53 [] c = "6" -> 54 [] c = "7" -> 55
      [] c = "8" -> 56 [] c = "9" -> 57

\* Python's a > b on strings: lexicographic by code point.
RECURSIVE StrGreater(_, _)
StrGreater(a, b) ==
    IF a = <<>> THEN FALSE
    ELSE IF b = <<>> THEN TRUE
    ELSE IF Head(a) # Head(b) THEN CharCode(Head(a)) > CharCode(Head(b))
    ELSE StrGreater(Tail(a), Tail(b))

CmdStart == <<"/","s","t","a","r","t">>
CmdCancel == <<"/","c","a","n","c","e","l">>
Task1 == <<"T","a","s","k"," ","1">>
Task2 == <<"T","a","s","k"," ","2">>
ImageAttached == <<"[","I","m","a","g","e"," ","A","t","t","a","c","h","e","d","]">>
Unknown == <<"U","n","k","n","o","w","n">>
confirm_a_ == <<"c","o","n","f","i","r","m","_","a","_">>
confirm_a_no == <<"c","o","n","f","i","r","m","_","a","_","n","o">>
confirm_a_yes == <<"c","o","n","f","i","r","m","_","a","_","y","e","s">>

regions ==
    { <<"T","a","s","h","k","e","n","t">>,
      <<"A","n","d","i","j","a","n">>,
      <<"F","e","r","g","a","n","a">>,
      <<"N","a","m","a","n","g","a","n">>,
      <<"S","a","m","a","r","k","a","n","d">>,
      <<"B","u","k","h","a","r","a">>,
      <<"N","a","v","o","i">>,
      <<"K","a","s","h","k","a","d","a","r","y","a">>,
      <<"S","u","r","k","h","a","n","d","a","r","y","a">>,
      <<"J","i","z","z","a","k","h">>,
      <<"S","i","r","d","a","r","y","a">>,
      <<"K","h","o","r","e","z","m">>,
      <<"K","a","r","a","k","a","l","p","a","k","s","t","a","n">>,
      <<"O","t","h","e","r">> }

Tashkent == <<"T","a","s","h","k","e","n","t">>

\* SQL NULL, Python None and a key absent from user_data: none of them is a text.
NULL == <<"NULL">>
None == <<"None">>

(***************************************************************************)
(* Users.  ADMIN_IDS is read from the environment; its default holds one   *)
(* id.  Ids are opaque: they are only compared.                            *)
(***************************************************************************)
ADMIN_IDS == {"5103279067"}

\* A slip: the ids of the list never equal a user's id.
IsAdminNever(user_id) == FALSE

\* user_id in ADMIN_IDS
IsAdmin(user_id) == user_id \in ADMIN_IDS
Admin == "5103279067"
Member == "1001"
UserIds == {Admin, Member}

(***************************************************************************)
(* The clock: the UTC day, formatted by strftime("%Y-%m-%d").              *)
(***************************************************************************)
DigitChar(d) == <<"0","1","2","3","4","5","6","7","8","9">>[d + 1]

\* Day 0 is 2024-12-31, day n >= 1 is 2025-01-n: the days cross a year's end.
DateOf(n) ==
    IF n = 0 THEN [year |-> 2024, month |-> 12, day |-> 31]
    ELSE [year |-> 2025, month |-> 1, day |-> n]

StrfTime(d) ==
    << DigitChar(d.year \div 1000), DigitChar((d.year \div 100) % 10),
       DigitChar((d.year \div 10) % 10), DigitChar(d.year % 10), "-",
       DigitChar(d.month \div 10), DigitChar(d.month % 10), "-",
       DigitChar(d.day \div 10), DigitChar(d.day % 10) >>

Today(n) == StrfTime(DateOf(n))

(***************************************************************************)
(* The users table and the statements run on it.                           *)
(***************************************************************************)
\* INSERT INTO users (user_id): the other columns take their defaults.
DefaultRow(user_id) ==
    [ user_id |-> user_id, full_name |-> NULL, phone_number |-> NULL,
      region |-> NULL, last_submission_date |-> NULL,
      task1_submitted |-> FALSE, task2_submitted |-> FALSE ]

\* fetchrow's None: no row matches.
NoRow == [user_id |-> ""]

\* conn.fetchrow(... WHERE user_id = $1): the row, or None.
FetchRow(db, user_id) ==
    IF \E r \in db : r.user_id = user_id
    THEN CHOOSE r \in db : r.user_id = user_id
    ELSE NoRow

IsNone(row) == row.user_id = NoRow.user_id

\* A slip: INSERT OR REPLACE, the stored row gives way to a default one.
create_user_replace(db, user_id) ==
    {r \in db : r.user_id # user_id} \cup {DefaultRow(user_id)}

create_user(db, user_id) ==
    IF \E r \in db : r.user_id = user_id THEN db
    ELSE db \cup {DefaultRow(user_id)}

save_user_info(db, user_id, field, value) ==
    { IF r.user_id = user_id THEN [r EXCEPT ![field] = value] ELSE r : r \in db }

\* A slip: the UPDATE clears task1_submitted only.
reset_limits_keeps_task2(db, user_id, today) ==
    LET row == FetchRow(db, user_id)
    IN  IF \/ IsNone(row)
           \/ row.last_submission_date \in {NULL, <<>>}
           \/ StrGreater(today, row.last_submission_date)
        THEN { IF r.user_id = user_id
               THEN [r EXCEPT !.last_submission_date = today,
                              !.task1_submitted = FALSE]
               ELSE r : r \in db }
        ELSE db

reset_limits_if_needed(db, user_id, today) ==
    LET row == FetchRow(db, user_id)
    IN  IF \/ IsNone(row)
           \/ row.last_submission_date \in {NULL, <<>>}
           \/ StrGreater(today, row.last_submission_date)
        THEN { IF r.user_id = user_id
               THEN [r EXCEPT !.last_submission_date = today,
                              !.task1_submitted = FALSE,
                              !.task2_submitted = FALSE]
               ELSE r : r \in db }
        ELSE db

get_user_status(db, user_id) == FetchRow(db, user_id)

update_task_submission(db, user_id, task) ==
    LET col == IF task = Task1 THEN "task1_submitted" ELSE "task2_submitted"
    IN  { IF r.user_id = user_id THEN [r EXCEPT ![col] = TRUE] ELSE r : r \in db }

(***************************************************************************)
(* The evaluation service and the text extraction.                         *)
(***************************************************************************)
retries == 3

\* Which return statement of evaluate_with_gemini gave the result.
APOLOGY == "Gemini API error after retries. Please try again later."
EVALUATION == "response.text[:4000]"

\* The first element stands for the one character U+274C.
ApologyText ==
    <<"U+274C"," ","G","e","m","i","n","i"," ","A","P","I"," ","e","r","r","o","r",
      " ","a","f","t","e","r"," ","r","e","t","r","i","e","s","."," ",
      "P","l","e","a","s","e"," ","t","r","y"," ","a","g","a","i","n"," ",
      "l","a","t","e","r",".">>

\* A slip: the slice keeps one character more.
SliceThrough(s, n) == SubSeq(s, 1, IF Len(s) < n + 1 THEN Len(s) ELSE n + 1)

\* s[:n]
Slice(s, n) == SubSeq(s, 1, IF Len(s) < n THEN Len(s) ELSE n)

\* The loop of evaluate_with_gemini over the outcomes the service has given so
\* far, one per call of generate_content ("error": the call raised; "ok": it
\* returned a response with `text`): either it has returned, or it awaits the
\* outcome of call number `calls`.
RECURSIVE GeminiLoop(_, _, _)
GeminiLoop(attempt, outcomes, warnings) ==
    IF attempt >= retries
    THEN [ state |-> "returned", result |-> APOLOGY, text |-> ApologyText,
           calls |-> attempt, warnings |-> warnings ]
    ELSE IF attempt >= Len(outcomes)
    THEN [ state |-> "awaiting", result |-> "", text |-> <<>>,
           calls |-> attempt + 1, warnings |-> warnings ]
    ELSE IF outcomes[attempt + 1].kind = "ok"
    THEN [ state |-> "returned", result |-> EVALUATION,
           text |-> Slice(outcomes[attempt + 1].text, 4000),
           calls |-> attempt + 1, warnings |-> warnings ]
    ELSE GeminiLoop(attempt + 1, outcomes, warnings + 1)

\* A slip: range(retries + 1).
RECURSIVE GeminiLoopExtra(_, _, _)
GeminiLoopExtra(attempt, outcomes, warnings) ==
    IF attempt >= retries + 1
    THEN [ state |-> "returned", result |-> APOLOGY, text |-> ApologyText,
           calls |-> attempt, warnings |-> warnings ]
    ELSE IF attempt >= Len(outcomes)
    THEN [ state |-> "awaiting", result |-> "", text |-> <<>>,
           calls |-> attempt + 1, warnings |-> warnings ]
    ELSE IF outcomes[attempt + 1].kind = "ok"
    THEN [ state |-> "returned", result |-> EVALUATION,
           text |-> Slice(outcomes[attempt + 1].text, 4000),
           calls |-> attempt + 1, warnings |-> warnings ]
    ELSE GeminiLoopExtra(attempt + 1, outcomes, warnings + 1)

evaluate_with_gemini_extra(outcomes) == GeminiLoopExtra(0, outcomes, 0)

evaluate_with_gemini(outcomes) == GeminiLoop(0, outcomes, 0)

\* extract_text_from_image under an outcome of Image.open / pytesseract: the
\* text read and the file removed, or an exception before os.remove and None.
extract_text_from_image(fs, path, ocr) ==
    IF ocr.ok THEN [text |-> ocr.text, files |-> fs \ {path}]
    ELSE [text |-> None, files |-> fs]

(***************************************************************************)
(* Updates and the filters of the handlers.                                *)
(***************************************************************************)
TextMsg(t) == [kind |-> "text", payload |-> t]
PhotoMsg == [kind |-> "photo", payload |-> <<>>]
ContactMsg(phone) == [kind |-> "contact", payload |-> phone]
CallbackQuery(data) == [kind |-> "callback", payload |-> data]

\* filters.TEXT: a message with text, a command included.
FilterText(m) == m.kind = "text" /\ m.payload # <<>>
FilterPhoto(m) == m.kind = "photo"
FilterContact(m) == m.kind = "contact"

\* filters.COMMAND: the text starts with a bot command.
FilterCommand(m) ==
    /\ m.kind = "text"
    /\ Len(m.payload) >= 2
    /\ m.payload[1] = "/"
    /\ m.payload[2] \notin Whitespace

RECURSIVE FirstWord(_)
FirstWord(s) ==
    IF s = <<>> \/ Head(s) \in Whitespace THEN <<>>
    ELSE <<Head(s)>> \o FirstWord(Tail(s))

\* CommandHandler(command): the bot command the text starts with is `command`.
CommandMatches(command, m) ==
    FilterCommand(m) /\ FirstWord(Tail(m.payload)) = command

\* filters.Regex("^(Task 1|Task 2)$"): re.search; $ also matches before a
\* final newline.
RegexTask(m) ==
    /\ m.kind = "text"
    /\ m.payload \in {Task1, Task2, Task1 \o <<"\n">>, Task2 \o <<"\n">>}

\* CallbackQueryHandler(pattern="^confirm_a_.*")
CallbackPattern(m) ==
    /\ m.kind = "callback"
    /\ Len(m.payload) >= Len(confirm_a_)
    /\ SubSeq(m.payload, 1, Len(confirm_a_)) = confirm_a_

(***************************************************************************)
(* State.                                                                  *)
(***************************************************************************)
VARIABLES
    users,      \* the rows of table users
    reg,        \* conversation reg: user -> state (END: no conversation)
    task,       \* conversation task: user -> state
    user_data,  \* context.user_data: user -> the keys task, question, answer
    files,      \* the image files on disk
    clock,      \* the current UTC day
    inflight,   \* the confirm_answer run awaiting evaluate_with_gemini, or Idle
    ev,         \* the last step: the update, the handler run, what it sent
    evaluated,  \* history: user, task -> the day (if any) of its last
                \* successful evaluation
    written     \* history: user -> the keys of user_data assigned since the
                \* user's last run of choose_task

vars ==
    <<users, reg, task, user_data, files, clock, inflight, ev, evaluated,
      written>>

END == "END"
Idle == [user |-> ""]

NoUpdate == [kind |-> "none", payload |-> <<>>]

\* An outcome of the text extraction: Image.open or pytesseract raised
\* (ok FALSE), or image_to_string returned `text`.
NoOcr == [ok |-> FALSE, text |-> <<>>]

Event(u, m, handler, out) ==
    [ user |-> u, update |-> m, handler |-> handler, raised |-> FALSE,
      out |-> out, outcomes |-> <<>>, calls |-> 0, warnings |-> 0,
      result |-> "", response |-> <<>>, text |-> <<>>, ocr |-> NoOcr ]

NeverEvaluated == {}

(***************************************************************************)
(* Dispatch: the application offers an update to its handlers in the order *)
(* they were added (reg, task, the cancel command); the first whose        *)
(* check_update accepts it handles it.  A conversation with no state for   *)
(* the user checks its entry points; in a state it checks the handlers of  *)
(* that state, then its fallbacks.                                         *)
(***************************************************************************)
cancel_command == <<"c","a","n","c","e","l">>
start_command == <<"s","t","a","r","t">>

RegCheck(u, m) ==
    CASE reg[u] = END ->
            IF CommandMatches(start_command, m) THEN "start" ELSE "none"
      [] reg[u] = "NAME" ->
            IF FilterText(m) /\ ~FilterCommand(m) THEN "get_name"
            ELSE IF CommandMatches(cancel_command, m) THEN "cancel" ELSE "none"
      [] reg[u] = "PHONE" ->
            IF FilterText(m) \/ FilterContact(m) THEN "get_phone"
            ELSE IF CommandMatches(cancel_command, m) THEN "cancel" ELSE "none"
      [] reg[u] = "REGION" ->
            IF FilterText(m) THEN "get_region"
            ELSE IF CommandMatches(cancel_command, m) THEN "cancel" ELSE "none"

TaskCheck(u, m) ==
    CASE task[u] = END ->
            IF RegexTask(m) THEN "choose_task" ELSE "none"
      [] task[u] = "QUESTION" ->
            IF FilterText(m) \/ FilterPhoto(m) THEN "get_question"
            ELSE IF CommandMatches(cancel_command, m) THEN "cancel" ELSE "none"
      [] task[u] = "ANSWER" ->
            IF FilterText(m) \/ FilterPhoto(m) THEN "get_answer"
            ELSE IF CommandMatches(cancel_command, m) THEN "cancel" ELSE "none"
      [] task[u] = "CONFIRM_A" ->
            IF CallbackPattern(m) THEN "confirm_answer"
            ELSE IF CommandMatches(cancel_command, m) THEN "cancel" ELSE "none"

\* A slip: the task conversation is added before the registration.
RouteTaskFirst(u, m) ==
    IF TaskCheck(u, m) # "none" THEN <<"task", TaskCheck(u, m)>>
    ELSE IF RegCheck(u, m) # "none" THEN <<"reg", RegCheck(u, m)>>
    ELSE IF CommandMatches(cancel_command, m) THEN <<"app", "cancel">>
    ELSE <<"none", "none">>

\* The conversation (or the application) whose handler takes the update.
Route(u, m) ==
    IF RegCheck(u, m) # "none" THEN <<"reg", RegCheck(u, m)>>
    ELSE IF TaskCheck(u, m) # "none" THEN <<"task", TaskCheck(u, m)>>
    ELSE IF CommandMatches(cancel_command, m) THEN <<"app", "cancel">>
    ELSE <<"none", "none">>

(***************************************************************************)
(* The handlers.  Each is enabled when no handler is in flight and the     *)
(* dispatch routes the update to it.                                       *)
(***************************************************************************)
\* A slip: concurrent updates, a handler starts while another is in flight.
RoutedConcurrently(u, m, conv, handler) == Route(u, m) = <<conv, handler>>

Routed(u, m, conv, handler) ==
    /\ inflight = Idle
    /\ Route(u, m) = <<conv, handler>>

start(u, m) ==
    /\ Routed(u, m, "reg", "start")
    /\ users' = create_user(users, u)
    /\ reg' = [reg EXCEPT ![u] = "NAME"]
    /\ ev' = Event(u, m, "start", <<"WELCOME">>)
    /\ UNCHANGED <<task, user_data, files, clock, inflight, evaluated, written>>

get_name(u, m) ==
    /\ Routed(u, m, "reg", "get_name")
    /\ users' = save_user_info(users, u, "full_name", Strip(m.payload))
    /\ reg' = [reg EXCEPT ![u] = "PHONE"]
    /\ ev' = Event(u, m, "get_name", <<"ASK_PHONE">>)
    /\ UNCHANGED <<task, user_data, files, clock, inflight, evaluated, written>>

get_phone(u, m) ==
    /\ Routed(u, m, "reg", "get_phone")
    /\ LET phone == IF m.kind = "contact" THEN m.payload ELSE Strip(m.payload)
       IN  IF Len(phone) < 6
           THEN /\ ev' = Event(u, m, "get_phone", <<"INVALID_PHONE">>)
                /\ UNCHANGED <<users, reg>>
           ELSE /\ users' = save_user_info(users, u, "phone_number", phone)
                /\ reg' = [reg EXCEPT ![u] = "REGION"]
                /\ ev' = Event(u, m, "get_phone", <<"ASK_REGION">>)
    /\ UNCHANGED <<task, user_data, files, clock, inflight, evaluated, written>>

\* A slip: the region is stored without the membership test.
get_region_unchecked(u, m) ==
    /\ Routed(u, m, "reg", "get_region")
    /\ users' = save_user_info(users, u, "region", Strip(m.payload))
    /\ reg' = [reg EXCEPT ![u] = END]
    /\ ev' = Event(u, m, "get_region", <<"REGISTRATION_COMPLETE">>)
    /\ UNCHANGED <<task, user_data, files, clock, inflight, evaluated, written>>

get_region(u, m) ==
    /\ Routed(u, m, "reg", "get_region")
    /\ LET region == Strip(m.payload)
       IN  IF region \notin regions
           THEN /\ ev' = Event(u, m, "get_region", <<"CHOOSE_FROM_LIST">>)
                /\ UNCHANGED <<users, reg>>
           ELSE /\ users' = save_user_info(users, u, "region", region)
                /\ reg' = [reg EXCEPT ![u] = END]
                /\ ev' = Event(u, m, "get_region", <<"REGISTRATION_COMPLETE">>)
    /\ UNCHANGED <<task, user_data, files, clock, inflight, evaluated, written>>

\* stat["task1_submitted"] on stat = None raises TypeError: the handler ends
\* there, nothing is sent and the conversation keeps its state.
choose_task(u, m) ==
    /\ Routed(u, m, "task", "choose_task")
    /\ LET t == Strip(m.payload)
           db == reset_limits_if_needed(users, u, Today(clock))
           stat == get_user_status(db, u)
       IN  /\ user_data' = [user_data EXCEPT ![u].task = t]
           /\ written' = [written EXCEPT ![u] = {"task"}]
           /\ IF ~IsAdmin(u)
              THEN /\ users' = db
                   /\ IF IsNone(stat)
                      THEN /\ ev' = [Event(u, m, "choose_task", <<>>)
                                        EXCEPT !.raised = TRUE]
                           /\ UNCHANGED task
                      ELSE IF \/ t = Task1 /\ stat.task1_submitted
                              \/ t = Task2 /\ stat.task2_submitted
                      THEN /\ ev' = Event(u, m, "choose_task", <<"ALREADY_SUBMITTED">>)
                           /\ task' = [task EXCEPT ![u] = END]
                      ELSE /\ ev' = Event(u, m, "choose_task", <<"ASK_QUESTION">>)
                           /\ task' = [task EXCEPT ![u] = "QUESTION"]
              ELSE /\ UNCHANGED users
                   /\ ev' = Event(u, m, "choose_task", <<"ASK_QUESTION">>)
                   /\ task' = [task EXCEPT ![u] = "QUESTION"]
    /\ UNCHANGED <<reg, files, clock, inflight, evaluated>>

QuestionFile(u) == <<"q", u>>
AnswerFile(u) == <<"a", u>>

\* A slip: the question is acknowledged and not stored.
get_question_forgets(u, m) ==
    /\ Routed(u, m, "task", "get_question")
    /\ ev' = Event(u, m, "get_question", <<"QUESTION_RECEIVED">>)
    /\ task' = [task EXCEPT ![u] = "ANSWER"]
    /\ UNCHANGED <<users, reg, user_data, files, clock, inflight, evaluated,
                   written>>

get_question(u, m) ==
    /\ Routed(u, m, "task", "get_question")
    /\ IF m.kind = "photo"
       THEN /\ files' = files \cup {QuestionFile(u)}
            /\ user_data' = [user_data EXCEPT ![u].question = ImageAttached]
            /\ written' = [written EXCEPT ![u] = @ \cup {"question"}]
            /\ ev' = Event(u, m, "get_question", <<"QUESTION_IMAGE_RECEIVED">>)
            /\ task' = [task EXCEPT ![u] = "ANSWER"]
       ELSE LET text == Strip(m.payload)
            IN  /\ UNCHANGED files
                /\ IF text = <<>>
                   THEN /\ ev' = Event(u, m, "get_question", <<"QUESTION_UNREADABLE">>)
                        /\ UNCHANGED <<user_data, task, written>>
                   ELSE /\ user_data' = [user_data EXCEPT ![u].question = text]
                        /\ written' = [written EXCEPT ![u] = @ \cup {"question"}]
                        /\ ev' = Event(u, m, "get_question", <<"QUESTION_RECEIVED">>)
                        /\ task' = [task EXCEPT ![u] = "ANSWER"]
    /\ UNCHANGED <<users, reg, clock, inflight, evaluated>>

\* `not text`: None and the empty string.
Falsy(text) == text \in {None, <<>>}

get_answer(u, m, ocr) ==
    /\ Routed(u, m, "task", "get_answer")
    /\ LET read == IF m.kind = "photo"
                   THEN extract_text_from_image(files \cup {AnswerFile(u)},
                                                AnswerFile(u), ocr)
                   ELSE [text |-> Strip(m.payload), files |-> files]
           seen == IF m.kind = "photo" THEN ocr ELSE NoOcr
       IN  /\ files' = read.files
           /\ IF Falsy(read.text)
              THEN /\ ev' = [Event(u, m, "get_answer", <<"ANSWER_UNREADABLE">>)
                                EXCEPT !.ocr = seen]
                   /\ UNCHANGED <<user_data, task, written>>
              ELSE /\ user_data' = [user_data EXCEPT ![u].answer = read.text]
                   /\ written' = [written EXCEPT ![u] = @ \cup {"answer"}]
                   /\ ev' = [Event(u, m, "get_answer", <<"IS_THIS_YOUR_ANSWER">>)
                                EXCEPT !.ocr = seen]
                   /\ task' = [task EXCEPT ![u] = "CONFIRM_A"]
    /\ UNCHANGED <<users, reg, clock, inflight, evaluated>>

\* dict.get(key, default)
Get(d, key, default) == IF d[key] = None THEN default ELSE d[key]

\* A slip: "no" returns QUESTION.
confirm_answer_no_restarts(u, m) ==
    /\ Routed(u, m, "task", "confirm_answer")
    /\ m.payload = confirm_a_no
    /\ ev' = Event(u, m, "confirm_answer", <<"RESEND_ANSWER">>)
    /\ task' = [task EXCEPT ![u] = "QUESTION"]
    /\ UNCHANGED <<users, reg, user_data, files, clock, inflight, evaluated,
                   written>>

\* confirm_answer on "confirm_a_no".
confirm_answer_no(u, m) ==
    /\ Routed(u, m, "task", "confirm_answer")
    /\ m.payload = confirm_a_no
    /\ ev' = Event(u, m, "confirm_answer", <<"RESEND_ANSWER">>)
    /\ task' = [task EXCEPT ![u] = "ANSWER"]
    /\ UNCHANGED <<users, reg, user_data, files, clock, inflight, evaluated,
                   written>>

\* confirm_answer on any other matching data, up to the first call of the
\* evaluation service.
confirm_answer_yes(u, m) ==
    /\ Routed(u, m, "task", "confirm_answer")
    /\ m.payload # confirm_a_no
    /\ LET answer == user_data[u].answer
           question == user_data[u].question
       IN  inflight' =
             [ user |-> u,
               task |-> Get(user_data[u], "task", Unknown),
               question |-> IF Falsy(question) THEN <<>> ELSE question,
               answer |-> IF Falsy(answer) THEN <<>> ELSE answer,
               outcomes |-> <<>> ]
    /\ ev' = [Event(u, m, "confirm_answer", <<"EVALUATING">>) EXCEPT !.calls = 1]
    /\ UNCHANGED <<users, reg, task, user_data, files, clock, evaluated,
                   written>>

\* The outcomes as the log shows them: raised or returned.
Kinds(outcomes) == [i \in 1 .. Len(outcomes) |-> outcomes[i].kind]

\* A slip: confirm_answer returns CONFIRM_A instead of ConversationHandler.END.
generate_content_stays(outcome) ==
    /\ inflight # Idle
    /\ evaluate_with_gemini(inflight.outcomes).state = "awaiting"
    /\ LET u == inflight.user
           outcomes == Append(inflight.outcomes, outcome)
           run == evaluate_with_gemini(outcomes)
       IN  IF run.state = "awaiting"
           THEN /\ inflight' = [inflight EXCEPT !.outcomes = outcomes]
                /\ ev' = [ev EXCEPT !.outcomes = Kinds(outcomes),
                                    !.calls = run.calls,
                                    !.warnings = run.warnings]
                /\ UNCHANGED <<users, task, evaluated>>
           ELSE /\ inflight' = Idle
                /\ users' = update_task_submission(users, u, inflight.task)
                /\ evaluated' =
                     IF inflight.task \in {Task1, Task2} /\ run.result = EVALUATION
                     THEN [evaluated EXCEPT ![u][inflight.task] = {clock}]
                     ELSE evaluated
                /\ ev' = [ev EXCEPT !.outcomes = Kinds(outcomes),
                                    !.calls = run.calls,
                                    !.warnings = run.warnings,
                                    !.result = run.result,
                                    !.response = outcome.text,
                                    !.text = run.text,
                                    !.out = Append(ev.out, "EVALUATION_RESULT")]
                /\ task' = [task EXCEPT ![u] = "CONFIRM_A"]
    /\ UNCHANGED <<reg, user_data, files, clock, written>>

\* One call of GEMINI_MODEL.generate_content returns or raises; when that ends
\* evaluate_with_gemini, confirm_answer runs on to its end.
generate_content(outcome) ==
    /\ inflight # Idle
    /\ evaluate_with_gemini(inflight.outcomes).state = "awaiting"
    /\ LET u == inflight.user
           outcomes == Append(inflight.outcomes, outcome)
           run == evaluate_with_gemini(outcomes)
       IN  IF run.state = "awaiting"
           THEN /\ inflight' = [inflight EXCEPT !.outcomes = outcomes]
                /\ ev' = [ev EXCEPT !.outcomes = Kinds(outcomes),
                                    !.calls = run.calls,
                                    !.warnings = run.warnings]
                /\ UNCHANGED <<users, task, evaluated>>
           ELSE /\ inflight' = Idle
                /\ users' = update_task_submission(users, u, inflight.task)
                /\ evaluated' =
                     IF inflight.task \in {Task1, Task2} /\ run.result = EVALUATION
                     THEN [evaluated EXCEPT ![u][inflight.task] = {clock}]
                     ELSE evaluated
                /\ ev' = [ev EXCEPT !.outcomes = Kinds(outcomes),
                                    !.calls = run.calls,
                                    !.warnings = run.warnings,
                                    !.result = run.result,
                                    !.response = outcome.text,
                                    !.text = run.text,
                                    !.out = Append(ev.out, "EVALUATION_RESULT")]
                /\ task' = [task EXCEPT ![u] = END]
    /\ UNCHANGED <<reg, user_data, files, clock, written>>

\* cancel, as a fallback of reg, a fallback of task, or the application's
\* own command handler.
cancel(u, m) ==
    /\ inflight = Idle
    /\ Route(u, m)[2] = "cancel"
    /\ ev' = Event(u, m, "cancel", <<"CANCELLED">>)
    /\ reg' = IF Route(u, m)[1] = "reg" THEN [reg EXCEPT ![u] = END] ELSE reg
    /\ task' = IF Route(u, m)[1] = "task" THEN [task EXCEPT ![u] = END] ELSE task
    /\ UNCHANGED <<users, user_data, files, clock, inflight, evaluated, written>>

\* No handler accepts the update.
unhandled(u, m) ==
    /\ Routed(u, m, "none", "none")
    /\ ev' = Event(u, m, "none", <<>>)
    /\ UNCHANGED <<users, reg, task, user_data, files, clock, inflight,
                   evaluated, written>>

\* 00:00 UTC passes, between two updates or while confirm_answer awaits the
\* evaluation.
Tick ==
    /\ clock < MaxDay
    /\ clock' = clock + 1
    /\ ev' = IF inflight = Idle THEN Event("", NoUpdate, "", <<>>) ELSE ev
    /\ UNCHANGED <<users, reg, task, user_data, files, inflight, evaluated,
                   written>>

(***************************************************************************)
(* Specifications.  Each draws the updates of one sender from a set of     *)
(* updates.  The table is durable and the conversations are not: the       *)
(* process starts with the rows an earlier run left.                       *)
(***************************************************************************)
\* generate_content raises, or returns a response with a text.
Raised == [kind |-> "error", text |-> <<>>]
Response(text) == [kind |-> "ok", text |-> text]

Feedback == <<"B","a","n","d"," ","7">>

GeminiOutcomes == {Response(Feedback), Raised}

Hi == <<"H","i">>
Phone == <<"+","9","9","8","9","0","1","2","3","4","5","6","7">>

Commands == {TextMsg(CmdStart), TextMsg(CmdCancel)}
Labels == {TextMsg(Task1), TextMsg(Task2)}
Clicks == {CallbackQuery(confirm_a_yes), CallbackQuery(confirm_a_no)}

\* The row of a user who has gone through start, get_name, get_phone, get_region.
RegisteredRow(user_id) ==
    [DefaultRow(user_id) EXCEPT !.full_name = Hi, !.phone_number = Phone,
                                !.region = Tashkent]

InitWith(db) ==
    /\ users = db
    /\ reg = [u \in UserIds |-> END]
    /\ task = [u \in UserIds |-> END]
    /\ user_data = [u \in UserIds |->
                        [task |-> None, question |-> None, answer |-> None]]
    /\ files = {}
    /\ clock = 0
    /\ inflight = Idle
    /\ ev = Event("", NoUpdate, "", <<>>)
    /\ evaluated = [u \in UserIds |-> [t \in {Task1, Task2} |-> NeverEvaluated]]
    /\ written = [u \in UserIds |-> {}]

\* Spec: a registered member submits tasks over the days.
Init == InitWith({RegisteredRow(Member)})

TaskUpdates == Labels \cup {TextMsg(Hi)} \cup Clicks

HandleTask(u, m) ==
    \/ choose_task(u, m)
    \/ get_question(u, m)
    \/ get_answer(u, m, NoOcr)
    \/ confirm_answer_no(u, m)
    \/ confirm_answer_yes(u, m)
    \/ unhandled(u, m)

Next ==
    \/ \E m \in TaskUpdates : HandleTask(Member, m)
    \/ \E outcome \in GeminiOutcomes : generate_content(outcome)
    \/ Tick

Spec == Init /\ [][Next]_vars

\* SpecFair: Spec, where a call of generate_content that is awaited returns or
\* raises in the end: the event loop resumes confirm_answer when the worker
\* thread is done and when the sleep between two attempts is over.
SpecFair ==
    Spec /\ WF_vars(\E outcome \in GeminiOutcomes : generate_content(outcome))

\* SpecFlows: a member, new or registered by an earlier run, both conversations
\* and the commands, within one day.
InitFlows == \E db \in {{}, {RegisteredRow(Member)}} : InitWith(db)

FlowUpdates == Commands \cup Labels \cup Clicks

Handle(u, m) ==
    \/ start(u, m)
    \/ get_name(u, m)
    \/ get_phone(u, m)
    \/ get_region(u, m)
    \/ choose_task(u, m)
    \/ get_question(u, m)
    \/ get_answer(u, m, NoOcr)
    \/ confirm_answer_no(u, m)
    \/ confirm_answer_yes(u, m)
    \/ cancel(u, m)
    \/ unhandled(u, m)

NextFlows ==
    \/ \E m \in FlowUpdates : Handle(Member, m)
    \/ \E outcome \in GeminiOutcomes : generate_content(outcome)

SpecFlows == InitFlows /\ [][NextFlows]_vars

\* SpecAdmin: an admin, with no row or with any stored quota.
StoredQuotaRows(user_id) ==
    { [DefaultRow(user_id) EXCEPT !.last_submission_date = d,
                                  !.task1_submitted = f1,
                                  !.task2_submitted = f2] :
        d \in {NULL, Today(0)}, f1 \in BOOLEAN, f2 \in BOOLEAN }

InitAdmin == \E db \in {{}} \cup {{r} : r \in StoredQuotaRows(Admin)} : InitWith(db)

NextAdmin ==
    \/ \E m \in TaskUpdates : HandleTask(Admin, m)
    \/ \E outcome \in GeminiOutcomes : generate_content(outcome)
    \/ Tick

SpecAdmin == InitAdmin /\ [][NextAdmin]_vars

\* SpecPhoto: a registered member sends texts and photos within one day; the
\* extraction of an answer photo raises, or returns a text, an empty text or
\* a line break.
Blank == <<" ">>
LineBreak == <<"\n">>

OcrOutcomes ==
    { NoOcr, [ok |-> TRUE, text |-> Hi], [ok |-> TRUE, text |-> <<>>],
      [ok |-> TRUE, text |-> LineBreak] }

PhotoUpdates == {TextMsg(Task1), TextMsg(Hi), TextMsg(Blank), PhotoMsg} \cup Clicks

HandlePhoto(u, m) ==
    \/ choose_task(u, m)
    \/ get_question(u, m)
    \/ \E ocr \in OcrOutcomes : get_answer(u, m, ocr)
    \/ confirm_answer_no(u, m)
    \/ confirm_answer_yes(u, m)
    \/ unhandled(u, m)

NextPhoto ==
    \/ \E m \in PhotoUpdates : HandlePhoto(Member, m)
    \/ \E outcome \in GeminiOutcomes : generate_content(outcome)

SpecPhoto == Init /\ [][NextPhoto]_vars

\* SpecEvaluate: a registered member submits tasks within one day; the
\* service raises or returns a response of 0 to 4010 characters.
LongText(n) == [i \in 1 .. n |-> DigitChar(i % 10)]

ResponseLengths == {0, 6, 3999, 4000, 4001, 4010}

LongOutcomes == {Raised} \cup {Response(LongText(n)) : n \in ResponseLengths}

NextEvaluate ==
    \/ \E m \in TaskUpdates : HandleTask(Member, m)
    \/ \E outcome \in LongOutcomes : generate_content(outcome)

SpecEvaluate == Init /\ [][NextEvaluate]_vars

\* SpecTwo: a registered member and an admin both submit Task 1 within one
\* day.
TwoUpdates == {TextMsg(Task1), TextMsg(Hi), CallbackQuery(confirm_a_yes)}

HandleTwo(u, m) ==
    \/ choose_task(u, m)
    \/ get_question(u, m)
    \/ get_answer(u, m, NoOcr)
    \/ confirm_answer_yes(u, m)
    \/ unhandled(u, m)

NextTwo ==
    \/ \E u \in UserIds, m \in TwoUpdates : HandleTwo(u, m)
    \/ \E outcome \in GeminiOutcomes : generate_content(outcome)

SpecTwo == Init /\ [][NextTwo]_vars

\* SpecReg: a member, new or registered by an earlier run, goes through the
\* registration with names, phone numbers (typed or shared) and regions.
Mars == <<"M","a","r","s">>
ShortPhone == <<"1","2","3","4","5">>

RegUpdates ==
    Commands \cup {TextMsg(Hi), TextMsg(Mars), TextMsg(Tashkent),
                   ContactMsg(Phone), ContactMsg(ShortPhone)}

HandleReg(u, m) ==
    \/ start(u, m)
    \/ get_name(u, m)
    \/ get_phone(u, m)
    \/ get_region(u, m)
    \/ cancel(u, m)
    \/ unhandled(u, m)

NextReg == \E m \in RegUpdates : HandleReg(Member, m)

SpecReg == InitFlows /\ [][NextReg]_vars

(***************************************************************************)
(* Properties.                                                             *)
(***************************************************************************)
Tasks == {Task1, Task2}
Other(t) == IF t = Task1 THEN Task2 ELSE Task1
Flag(row, t) == IF t = Task1 THEN row.task1_submitted ELSE row.task2_submitted

Row(u) == FetchRow(users, u)
RowAfter(u) == FetchRow(users', u)

\* The step that ends an evaluation: evaluate_with_gemini returns and
\* confirm_answer runs to its end.
EvaluationEnds == inflight # Idle /\ inflight' = Idle

\* The step is a run of `handler` for user u.
Runs(handler, u) == ev'.handler = handler /\ ev'.user = u

\* C1: a failed evaluation never consumes quota: when all attempts fail and the
\* apology is returned, the user's task1-submitted and task2-submitted flags
\* are after the evaluation what they were before it; a flag becomes true only
\* in a step in which the evaluation service returned a result.
C1_FailedEvaluationKeepsQuota ==
    [][ \A u \in UserIds :
          /\ (EvaluationEnds /\ inflight.user = u /\ ev'.result = APOLOGY)
                => \A t \in Tasks : Flag(RowAfter(u), t) = Flag(Row(u), t)
          /\ (~IsNone(Row(u)) /\ \E t \in Tasks :
                                   ~Flag(Row(u), t) /\ Flag(RowAfter(u), t))
                => ev'.result = EVALUATION ]_vars

\* C2: for a non-admin user and a task type t: a successful evaluation of t
\* leaves the flag of t true and the flag of the other type as it was, and a
\* later choose_task for t on the UTC day of that evaluation is denied: the
\* denial is sent and the conversation ends without entering QUESTION.
C2_SuccessThenSameDayDenied ==
    [][ \A u \in UserIds \ ADMIN_IDS : \A t \in Tasks :
          /\ ( /\ EvaluationEnds /\ inflight.user = u /\ inflight.task = t
               /\ ev'.result = EVALUATION )
                => /\ Flag(RowAfter(u), t)
                   /\ Flag(RowAfter(u), Other(t)) = Flag(Row(u), Other(t))
          /\ ( /\ Runs("choose_task", u)
               /\ Strip(ev'.update.payload) = t
               /\ evaluated[u][t] = {clock} )
                => /\ ev'.out = <<"ALREADY_SUBMITTED">>
                   /\ task'[u] = END ]_vars

\* C3: for a non-admin user, a task type and a UTC day, at most one evaluation
\* of that type is run and marked submitted on that day: no evaluation of a
\* type succeeds on a day on which one of that type has already succeeded.
C3_OneEvaluationPerDay ==
    [][ \A u \in UserIds \ ADMIN_IDS : \A t \in Tasks :
          ( /\ EvaluationEnds /\ inflight.user = u /\ inflight.task = t
            /\ ev'.result = EVALUATION )
             => evaluated[u][t] # {clock} ]_vars

\* C4: when choose_task runs reset_limits_if_needed for an existing non-admin
\* user: if the stored last_submission_date is unset or a day before today,
\* the row gets today's date and both flags false, and the quota check that
\* follows allows the task; if the stored date is today, the row is unchanged.
C4_EnsureFreshQuota ==
    [][ \A u \in UserIds \ ADMIN_IDS :
          (Runs("choose_task", u) /\ ~IsNone(Row(u))) =>
             LET stored == Row(u).last_submission_date
             IN  IF stored = NULL \/ \E d \in 0 .. clock - 1 : stored = Today(d)
                 THEN /\ RowAfter(u) =
                            [Row(u) EXCEPT !.last_submission_date = Today(clock),
                                           !.task1_submitted = FALSE,
                                           !.task2_submitted = FALSE]
                      /\ task'[u] = "QUESTION"
                      /\ ev'.out = <<"ASK_QUESTION">>
                 ELSE /\ stored = Today(clock)
                      /\ RowAfter(u) = Row(u) ]_vars

\* A member whose task was evaluated on an earlier day has chosen it again
\* today and is asked for the question, the row dated today.
C4_Witness ==
    \E t \in Tasks :
       /\ ev.handler = "choose_task" /\ ev.user = Member
       /\ ev.update.payload = t
       /\ \E d \in 0 .. clock - 1 : evaluated[Member][t] = {d}
       /\ Row(Member).last_submission_date = Today(clock)
       /\ ~Flag(Row(Member), t)
       /\ task[Member] = "QUESTION"

\* C5: for a user of the admin list, choose_task always goes on to QUESTION
\* and asks for the question, whatever the stored flags and date are, and no
\* denial is ever sent to an admin.
C5_AdminBypassesQuota ==
    [][ \A u \in ADMIN_IDS :
          /\ Runs("choose_task", u)
                => /\ task'[u] = "QUESTION"
                   /\ ev'.out = <<"ASK_QUESTION">>
                   /\ ~ev'.raised
          /\ ev'.user = u
                => \A i \in 1 .. Len(ev'.out) : ev'.out[i] # "ALREADY_SUBMITTED"
      ]_vars

\* An admin whose row says Task 1 was submitted today has chosen Task 1 and is
\* asked for the question.
C5_Witness ==
    /\ ev.handler = "choose_task" /\ ev.user = Admin
    /\ ev.update.payload = Task1
    /\ ~IsNone(Row(Admin))
    /\ Row(Admin).task1_submitted
    /\ Row(Admin).last_submission_date = Today(clock)
    /\ task[Admin] = "QUESTION"

\* C6: in every state of both conversations a /cancel message is handled by
\* cancel, ends the conversation, and stores nothing from the command text in
\* the user's row or in the draft.
C6_CancelFromEveryState ==
    [][ \A u \in UserIds :
          ( /\ ev'.user = u
            /\ ev'.update = TextMsg(CmdCancel)
            /\ (reg[u] # END \/ task[u] # END) )
             => /\ ev'.handler = "cancel"
                /\ IF reg[u] # END THEN reg'[u] = END ELSE task'[u] = END
                /\ users' = users
                /\ user_data' = user_data ]_vars

\* C7: evaluate_with_gemini calls the service at most 3 times and stops at the
\* first success; error, error, ok gives the evaluation after 3 calls and 2
\* warnings; three errors give the apology after 3 calls and 3 warnings; it
\* never raises into confirm_answer.
C7_EvaluateRetries ==
    LET n == Len(ev.outcomes)
        errors == Cardinality({i \in 1 .. n : ev.outcomes[i] = "error"})
    IN  /\ n <= 3
        /\ \A i \in 1 .. n - 1 : ev.outcomes[i] = "error"
        /\ inflight # Idle => n < 3 /\ errors = n /\ ev.result = ""
        /\ ev.handler = "confirm_answer" => ~ev.raised
        /\ ev.result # "" =>
             /\ n >= 1
             /\ ev.calls = n
             /\ ev.warnings = errors
             /\ ev.result = IF ev.outcomes[n] = "ok" THEN EVALUATION ELSE APOLOGY
             /\ ev.result = APOLOGY => n = 3 /\ ev.warnings = 3
        /\ (ev.outcomes = <<"error", "error", "ok">> /\ inflight = Idle) =>
             ev.result = EVALUATION /\ ev.calls = 3 /\ ev.warnings = 2
        /\ (ev.outcomes = <<"error", "error", "error">>) =>
             ev.result = APOLOGY /\ ev.calls = 3 /\ ev.warnings = 3

\* The service failed twice and then succeeded, and the evaluation was sent.
C7_Witness ==
    /\ ev.outcomes = <<"error", "error", "ok">>
    /\ ev.result = EVALUATION
    /\ ev.out = <<"EVALUATING", "EVALUATION_RESULT">>
    /\ inflight = Idle

\* C8: a user whose registration or task conversation is past its entry step
\* has a row in table users.
C8_RowBeforeProgress ==
    \A u \in UserIds :
       (reg[u] # END \/ task[u] # END \/ inflight.user = u) => ~IsNone(Row(u))

\* C9: when a handler that reads or writes the user's row runs for a user with
\* no row, a message is sent to the user and the conversations of that user
\* end.
C9_NoRowIsReported ==
    [][ \A u \in UserIds :
          ( /\ ev'.user = u
            /\ \/ ev'.handler \in {"get_name", "get_phone", "get_region"}
               \/ ev'.handler = "choose_task" /\ ~IsAdmin(u)
               \/ EvaluationEnds
            /\ IsNone(Row(u)) )
             => /\ ev'.out # <<>>
                /\ reg'[u] = END
                /\ task'[u] = END ]_vars

\* C10: start leaves an existing row as it is, field by field, and creates for
\* a user without a row one row with every field unset and both flags false;
\* either way the user has exactly one row after it and no other row changes.
C10_StartIsIdempotent ==
    [][ \A u \in UserIds :
          Runs("start", u) =>
             /\ Cardinality({r \in users' : r.user_id = u}) = 1
             /\ {r \in users' : r.user_id # u} = {r \in users : r.user_id # u}
             /\ IF IsNone(Row(u))
                THEN RowAfter(u) =
                       [ user_id |-> u, full_name |-> NULL,
                         phone_number |-> NULL, region |-> NULL,
                         last_submission_date |-> NULL,
                         task1_submitted |-> FALSE, task2_submitted |-> FALSE ]
                ELSE RowAfter(u) = Row(u) ]_vars

\* start has just run for a registered member whose row holds a name, a phone,
\* a region, a date and a submitted flag.
C10_Witness ==
    /\ ev.handler = "start" /\ ev.user = Member
    /\ Row(Member).full_name = Hi
    /\ Row(Member).phone_number = Phone
    /\ Row(Member).region = Tashkent
    /\ Row(Member).last_submission_date = Today(clock)
    /\ Row(Member).task1_submitted

\* C11: no transient image file outlives the step that created it: between
\* two steps no q_<id>.jpg and no a_<id>.jpg is on disk, whether the extraction
\* succeeded, returned blank text or raised.
C11_NoImageFileRemains == files = {}

\* C12: in ANSWER an input that resolves to nothing (a whitespace-only text, a
\* photo whose extraction raises, a photo whose extraction returns an empty or
\* whitespace-only text) keeps the conversation in ANSWER, re-prompts and
\* leaves the draft answer as it was; every other input leads to CONFIRM_A
\* with a non-blank draft answer, the trimmed text for a text message.
C12_EmptyAnswerStays ==
    [][ \A u \in UserIds :
          Runs("get_answer", u) =>
             LET m == ev'.update
                 empty == IF m.kind = "photo"
                          THEN ~ev'.ocr.ok \/ Strip(ev'.ocr.text) = <<>>
                          ELSE Strip(m.payload) = <<>>
             IN  IF empty
                 THEN /\ task'[u] = "ANSWER"
                      /\ ev'.out = <<"ANSWER_UNREADABLE">>
                      /\ user_data'[u].answer = user_data[u].answer
                 ELSE /\ task'[u] = "CONFIRM_A"
                      /\ user_data'[u].answer # None
                      /\ Strip(user_data'[u].answer) # <<>>
                      /\ m.kind = "text" =>
                            user_data'[u].answer = Strip(m.payload) ]_vars

\* C13: invalid registration input is recovered in place: in PHONE an input
\* whose resulting string has fewer than 6 characters leaves the state PHONE
\* and the row as it was; in REGION an input that is not one of the 14 regions
\* leaves the state REGION and the row as it was, and a listed one is stored
\* and ends the registration.  The stored region of every row is unset or one
\* of the 14 regions.
C13_InvalidInputStays ==
    /\ [](/\ Cardinality(regions) = 14
          /\ \A r \in users : r.region = NULL \/ r.region \in regions)
    /\ [][ \A u \in UserIds :
             /\ Runs("get_phone", u) =>
                   LET m == ev'.update
                       phone == IF m.kind = "contact" THEN m.payload
                                ELSE Strip(m.payload)
                   IN  Len(phone) < 6 =>
                          /\ reg[u] = "PHONE" /\ reg'[u] = "PHONE"
                          /\ users' = users
             /\ Runs("get_region", u) =>
                   LET region == Strip(ev'.update.payload)
                   IN  /\ reg[u] = "REGION"
                       /\ IF region \in regions
                          THEN /\ RowAfter(u) = [Row(u) EXCEPT !.region = region]
                               /\ reg'[u] = END
                          ELSE /\ reg'[u] = "REGION"
                               /\ users' = users ]_vars

\* A new member has given a name and a phone number and has answered "Mars"
\* when asked for the region: still asked, the region unset.
C13_Witness ==
    /\ ev.handler = "get_region" /\ ev.user = Member
    /\ ev.update = TextMsg(Mars)
    /\ ev.out = <<"CHOOSE_FROM_LIST">>
    /\ reg[Member] = "REGION"
    /\ Row(Member).phone_number = Phone
    /\ Row(Member).region = NULL

\* C14: every text evaluate_with_gemini returns has at most 4000 characters: a
\* response of more than 4000 characters is cut to its first 4000, a response
\* of at most 4000 is returned as it is, and the apology is within 4000.
C14_ResultWithinBudget ==
    /\ Len(ev.text) <= 4000
    /\ ev.result = EVALUATION =>
          IF Len(ev.response) > 4000
          THEN /\ Len(ev.text) = 4000
               /\ \A i \in 1 .. 4000 : ev.text[i] = ev.response[i]
          ELSE ev.text = ev.response
    /\ ev.result = APOLOGY =>
          /\ ev.text = ApologyText
          /\ Len(ev.text) = 57

\* The service returned 4001 characters and 4000 were returned to
\* confirm_answer.
C14_Witness ==
    /\ ev.result = EVALUATION
    /\ Len(ev.response) = 4001
    /\ Len(ev.text) = 4000
    /\ inflight = Idle

\* C15: an evaluation in flight for one user does not block the others: while
\* confirm_answer awaits evaluate_with_gemini for a user, an update of any
\* other user can be taken up and handled.
C15_OtherUsersNotBlocked ==
    \A u \in UserIds :
       (inflight # Idle /\ inflight.user # u) =>
          \A m \in TwoUpdates : ENABLED HandleTwo(u, m)

\* C16: the handler runs of a user do not interleave.  While an evaluation is
\* in flight for a user, no other handler runs, the draft is not modified, the
\* evaluation goes on with the task, question and answer it read, and the row
\* changes only when it ends, in the flag of its task at most, the flow
\* ending with it.  An evaluation starts only in CONFIRM_A, with the draft as
\* it is then; a "yes" click that comes when the flow is not in CONFIRM_A is
\* handled by no handler.
C16_SerializedPerUser ==
    [][ \A u \in UserIds :
          /\ (inflight # Idle /\ inflight.user = u) =>
                /\ user_data' = user_data
                /\ ev'.handler = "confirm_answer"
                /\ ev'.user = u /\ ev'.update = ev.update
                /\ IF inflight' # Idle
                   THEN /\ [inflight' EXCEPT !.outcomes = <<>>]
                             = [inflight EXCEPT !.outcomes = <<>>]
                        /\ SubSeq(inflight'.outcomes, 1, Len(inflight.outcomes))
                             = inflight.outcomes
                        /\ users' = users
                        /\ task' = task
                   ELSE /\ task'[u] = END
                        /\ \A t \in Tasks \ {inflight.task} :
                              Flag(RowAfter(u), t) = Flag(Row(u), t)
                        /\ {r \in users' : r.user_id # u}
                              = {r \in users : r.user_id # u}
          /\ (inflight = Idle /\ inflight' # Idle /\ inflight'.user = u) =>
                /\ task[u] = "CONFIRM_A"
                /\ ev'.update = CallbackQuery(confirm_a_yes)
                /\ inflight'.task = user_data[u].task
                /\ inflight'.question = user_data[u].question
                /\ inflight'.answer = user_data[u].answer
          /\ ( /\ inflight = Idle /\ ev'.user = u
               /\ ev'.update = CallbackQuery(confirm_a_yes)
               /\ task[u] # "CONFIRM_A" ) =>
                /\ ev'.handler = "none"
                /\ inflight' = Idle
                /\ users' = users /\ task' = task ]_vars

\* A second "yes" click, handled after the evaluation of Task 1 has ended and
\* set its flag: no handler took it.
C16_Witness ==
    /\ ev.user = Member
    /\ ev.update = CallbackQuery(confirm_a_yes)
    /\ ev.handler = "none"
    /\ task[Member] = END
    /\ user_data[Member].task = Task1
    /\ Row(Member).task1_submitted
    /\ evaluated[Member][Task1] = {clock}

\* C17: every evaluation terminates and ends the flow: once "yes" is clicked in
\* CONFIRM_A, after at most 3 calls of the service, whatever their outcomes,
\* confirm_answer sends exactly one result message (the evaluation or the
\* apology) after the notice and the task conversation has ended.
C17_EvaluationTerminates ==
    /\ (inflight # Idle) ~> (inflight = Idle)
    /\ [](inflight # Idle => Len(inflight.outcomes) < 3 /\ ev.calls <= 3)
    /\ [][ EvaluationEnds =>
             /\ ev'.out = <<"EVALUATING", "EVALUATION_RESULT">>
             /\ ev'.result \in {EVALUATION, APOLOGY}
             /\ ev'.text = IF ev'.result = APOLOGY THEN ApologyText
                           ELSE ev'.response
             /\ ev'.calls <= 3
             /\ task'[inflight.user] = END
             /\ inflight' = Idle ]_vars

\* The service failed three times: the apology was sent as the one result
\* message and the flow has ended.
C17_Witness ==
    /\ ev.handler = "confirm_answer" /\ ev.user = Member
    /\ ev.outcomes = <<"error", "error", "error">>
    /\ ev.calls = 3
    /\ ev.result = APOLOGY
    /\ ev.out = <<"EVALUATING", "EVALUATION_RESULT">>
    /\ task[Member] = END
    /\ inflight = Idle

\* C18: in CONFIRM_A a "no" click returns the flow to ANSWER without a call of
\* the service and without a change of the row, and keeps the draft; only a
\* "yes" click in CONFIRM_A starts an evaluation, of the answer confirmed, and
\* every call of the service belongs to a run started by such a click.
C18_NoReturnsToAnswer ==
    [][ \A u \in UserIds :
          /\ ( /\ inflight = Idle /\ ev'.user = u
               /\ ev'.update = CallbackQuery(confirm_a_no)
               /\ task[u] = "CONFIRM_A" ) =>
                /\ ev'.handler = "confirm_answer"
                /\ ev'.out = <<"RESEND_ANSWER">>
                /\ ev'.calls = 0 /\ ev'.outcomes = <<>>
                /\ inflight' = Idle
                /\ task'[u] = "ANSWER"
                /\ users' = users
                /\ user_data'[u].task = user_data[u].task
                /\ user_data'[u].question = user_data[u].question
          /\ (inflight'.user = u /\ inflight.user # u) =>
                /\ ev'.update = CallbackQuery(confirm_a_yes)
                /\ ev'.handler = "confirm_answer"
                /\ task[u] = "CONFIRM_A"
                /\ inflight'.answer = user_data[u].answer
          /\ (ev'.user = u /\ ev'.calls > ev.calls) =>
                /\ ev'.update = CallbackQuery(confirm_a_yes)
                /\ ev'.handler = "confirm_answer"
                /\ inflight.user = u \/ task[u] = "CONFIRM_A" ]_vars

\* The member has answered "no" to the answer shown for Task 2: back in ANSWER
\* with the task and the question kept and no flag set.
C18_Witness ==
    /\ ev.handler = "confirm_answer" /\ ev.user = Member
    /\ ev.update = CallbackQuery(confirm_a_no)
    /\ task[Member] = "ANSWER"
    /\ user_data[Member].task = Task2
    /\ user_data[Member].question = Hi
    /\ user_data[Member].answer = Hi
    /\ ~Row(Member).task1_submitted /\ ~Row(Member).task2_submitted
    /\ inflight = Idle

DraftKeys == {"task", "question", "answer"}

\* C19: the draft is not cleared when a flow ends, by its evaluation or by
\* cancel, yet no evaluation uses a value left by an earlier flow: when an
\* evaluation starts, the task, the question and the answer it is given are
\* those of the draft, each assigned since the choose_task that began the
\* flow.
C19_DraftIsOfCurrentFlow ==
    [][ \A u \in UserIds :
          /\ (EvaluationEnds /\ inflight.user = u) => user_data' = user_data
          /\ (Runs("cancel", u) /\ inflight = Idle) => user_data' = user_data
          /\ (inflight.user # u /\ inflight'.user = u) =>
                /\ written[u] = DraftKeys
                /\ \A k \in DraftKeys : user_data[u][k] # None
                /\ inflight'.task = user_data[u].task
                /\ inflight'.question = user_data[u].question
                /\ inflight'.answer = user_data[u].answer ]_vars

\* Task 1 was evaluated in an earlier flow, which left its draft behind, and
\* the evaluation of a later flow, for Task 2, is in flight.
C19_Witness ==
    /\ evaluated[Member][Task1] = {clock}
    /\ Row(Member).task1_submitted
    /\ inflight # Idle
    /\ inflight.user = Member
    /\ inflight.task = Task2
    /\ written[Member] = DraftKeys

RegHandlers == {"start", "get_name", "get_phone", "get_region"}
TaskHandlers == {"choose_task", "get_question", "get_answer", "confirm_answer"}

\* The registration, awaiting input in state s, accepts the message.
RegAccepts(s, m) ==
    \/ s = "NAME" /\ m.kind = "text" /\ Head(m.payload) # "/"
    \/ s = "PHONE" /\ m.kind \in {"text", "contact"}
    \/ s = "REGION" /\ m.kind = "text"

\* C20: an update is handled by at most one handler, the registration being
\* asked first, then the task flow, then the global cancel: one update changes
\* the state of at most one of the two conversations; a message the
\* registration accepts while it awaits input (a task label included) is
\* handled by the registration and neither starts nor advances the task flow;
\* a task handler runs only on an update the registration does not take, and
\* the global cancel only when neither conversation is active.
C20_OneHandlerInOrder ==
    [][ \A u \in UserIds :
          (inflight = Idle /\ ev'.user = u) =>
             LET m == ev'.update
             IN  /\ ~(reg'[u] # reg[u] /\ task'[u] # task[u])
                 /\ ev'.handler \in RegHandlers =>
                       /\ task' = task /\ user_data' = user_data
                       /\ inflight' = Idle
                 /\ ev'.handler \in TaskHandlers =>
                       /\ reg' = reg
                       /\ ~RegAccepts(reg[u], m)
                       /\ ~(reg[u] = END /\ m = TextMsg(CmdStart))
                 /\ RegAccepts(reg[u], m) =>
                       /\ ev'.handler =
                            ( CASE reg[u] = "NAME" -> "get_name"
                                [] reg[u] = "PHONE" -> "get_phone"
                                [] reg[u] = "REGION" -> "get_region" )
                       /\ task' = task /\ user_data' = user_data
                       /\ inflight' = Idle
                 /\ (ev'.handler = "cancel" /\ reg' = reg /\ task' = task) =>
                       reg[u] = END /\ task[u] = END ]_vars

\* A new member was asked for the name and sent "Task 1": get_name took it as
\* the name and the task flow has not started.
C20_Witness ==
    /\ ev.handler = "get_name" /\ ev.user = Member
    /\ ev.update = TextMsg(Task1)
    /\ reg[Member] = "PHONE"
    /\ Row(Member).full_name = Task1
    /\ task[Member] = END
    /\ user_data[Member].task = None

====
